---- MODULE Spec2Model ----
(***************************************************************************)
(* Model of src/extract_app.py: the invoice line-item extraction           *)
(* (ITEM_LINE_RE, extract_pdf_invoice) and the host that presents its      *)
(* outcome (main).                                                         *)
(*                                                                         *)
(* Text is a sequence of one-character strings.  A Python float is the     *)
(* exact decimal it was parsed from, [num |-> n, exp |-> k] = n / 10^k in  *)
(* lowest form; the numeric literals of the input pool are exactly         *)
(* representable in binary, so products and ties behave as in IEEE 754.    *)
(***************************************************************************)
EXTENDS Integers, Sequences, FiniteSets, TLC

\* Longest document, in raw text lines.
MaxLines == 4

\* current = None: no record yet; otherwise current is the position in
\* records of the dict it refers to
None == 0

----------------------------------------------------------------------------
(* Characters and string helpers                                           *)

Digit == {"0", "1", "2", "3", "4", "5", "6", "7", "8", "9"}

\* \s of the regex, and what str.strip() removes
Whitespace == {" ", "\t"}

DigitVal(c) ==
    CASE c = "0" -> 0 [] c = "1" -> 1 [] c = "2" -> 2 [] c = "3" -> 3
      [] c = "4" -> 4 [] c = "5" -> 5 [] c = "6" -> 6 [] c = "7" -> 7
      [] c = "8" -> 8 [] c = "9" -> 9

\* s[a..b], empty when a > b
Slice(s, a, b) == IF a > b THEN <<>> ELSE SubSeq(s, a, b)

\* str.upper() on one character
UpperChar(c) ==
    CASE c = "l" -> "L" [] c = "e" -> "E" [] c = "a" -> "A" [] c = "d" -> "D"
      [] c = "t" -> "T" [] c = "i" -> "I" [] c = "m" -> "M" [] c = "b" -> "B"
      [] c = "x" -> "X"
      [] OTHER -> c

\* str.upper()
upper(s) == [k \in 1..Len(s) |-> UpperChar(s[k])]

\* str.startswith(prefix)
startswith(s, prefix) ==
    /\ Len(s) >= Len(prefix)
    /\ Slice(s, 1, Len(prefix)) = prefix

RECURSIVE strip(_)
\* str.strip()
strip(s) ==
    IF s = <<>> THEN s
    ELSE IF s[1] \in Whitespace THEN strip(Tail(s))
    ELSE IF s[Len(s)] \in Whitespace THEN strip(Slice(s, 1, Len(s) - 1))
    ELSE s

RECURSIVE split(_, _)
\* str.split(sep) for a one-character separator: always at least one piece
split(s, sep) ==
    IF \A k \in 1..Len(s) : s[k] # sep THEN <<s>>
    ELSE LET p == CHOOSE k \in 1..Len(s) :
                      s[k] = sep /\ \A j \in 1..(k - 1) : s[j] # sep
         IN <<Slice(s, 1, p - 1)>> \o split(Slice(s, p + 1, Len(s)), sep)

----------------------------------------------------------------------------
(* Numbers                                                                 *)

RECURSIVE DigitsValue(_)
\* value of a (possibly empty) string of decimal digits; leading zeros count
\* for nothing
DigitsValue(s) ==
    IF s = <<>> THEN 0
    ELSE DigitsValue(Slice(s, 1, Len(s) - 1)) * 10 + DigitVal(s[Len(s)])

RECURSIVE Pow10(_)
Pow10(k) == IF k = 0 THEN 1 ELSE 10 * Pow10(k - 1)

RECURSIVE Normal(_)
\* the one representation of a decimal value: no trailing fractional zero
Normal(d) ==
    IF d.exp > 0 /\ d.num % 10 = 0
    THEN Normal([num |-> d.num \div 10, exp |-> d.exp - 1])
    ELSE d

\* int() that reads the first digit only
intFirstDigit(s) == DigitVal(s[1])

\* int(str) on a match of \d+
int(s) == DigitsValue(s)

\* float(str) on digits with an optional '.' and fraction digits
float(s) ==
    LET dots == {k \in 1..Len(s) : s[k] = "."}
        p    == IF dots = {} THEN Len(s) + 1 ELSE CHOOSE k \in dots : TRUE
        ip   == Slice(s, 1, p - 1)
        fp   == Slice(s, p + 1, Len(s))
    IN Normal([num |-> DigitsValue(ip \o fp), exp |-> Len(fp)])

\* str.replace(",", "")
replaceComma(s) == SelectSeq(s, LAMBDA c : c # ",")

\* float * float
Mul(a, b) == Normal([num |-> a.num * b.num, exp |-> a.exp + b.exp])

\* Series.round(n): to n decimals, a tie going to the even neighbour
round(d, n) ==
    IF d.exp <= n THEN d
    ELSE LET D == Pow10(d.exp - n)
             q == d.num \div D
             r == d.num % D
             up == 2 * r > D \/ (2 * r = D /\ q % 2 = 1)
         IN Normal([num |-> IF up THEN q + 1 ELSE q, exp |-> n])

----------------------------------------------------------------------------
(* ITEM_LINE_RE                                                            *)

\* \d+
IsDigits(t) == Len(t) >= 1 /\ \A k \in 1..Len(t) : t[k] \in Digit

\* \d+(?:\.\d+)?
IsQty(t) ==
    \/ IsDigits(t)
    \/ \E p \in 1..Len(t) :
          /\ t[p] = "."
          /\ IsDigits(Slice(t, 1, p - 1))
          /\ IsDigits(Slice(t, p + 1, Len(t)))

\* \$[\d,]+\.\d{2}
IsPrice(t) ==
    /\ Len(t) >= 5
    /\ t[1] = "$"
    /\ \A k \in 2..(Len(t) - 3) : t[k] \in Digit \cup {","}
    /\ t[Len(t) - 2] = "."
    /\ t[Len(t) - 1] \in Digit
    /\ t[Len(t)] \in Digit

RECURSIVE Fields(_)
\* the maximal runs of non-whitespace characters of a line, in order
Fields(s) ==
    IF s = <<>> THEN <<>>
    ELSE IF s[1] \in Whitespace THEN Fields(Tail(s))
    ELSE LET ends == {k \in 1..Len(s) : s[k] \in Whitespace}
             e    == IF ends = {} THEN Len(s) + 1
                     ELSE CHOOSE k \in ends : \A j \in ends : k <= j
         IN <<Slice(s, 1, e - 1)>> \o Fields(Slice(s, e, Len(s)))

\* ITEM_LINE_RE.match(ln): the named groups, or no match.  No field pattern
\* admits whitespace and the fields are separated by \s+, so the anchored
\* pattern matches exactly the lines that start and end with a
\* non-whitespace character and whose five whitespace-separated fields match
\* the five field patterns; the groups are those fields.
ITEM_LINE_RE(ln) ==
    LET f == Fields(ln)
    IN IF /\ ln # <<>>
          /\ ln[1] \notin Whitespace
          /\ ln[Len(ln)] \notin Whitespace
          /\ Len(f) = 5
          /\ IsDigits(f[1])
          /\ IsQty(f[2])
          /\ IsPrice(f[4])
          /\ IsPrice(f[5])
       THEN [matched    |-> TRUE,
             line_no    |-> f[1],
             qty        |-> f[2],
             part_id    |-> f[3],
             unit_price |-> Tail(f[4]),
             ext_price  |-> Tail(f[5])]
       ELSE [matched |-> FALSE]

----------------------------------------------------------------------------
(* extract_pdf_invoice                                                     *)

Columns ==
    <<"Line #", "Quantity Ordered", "Part ID", "Description",
      "Net Unit Price", "Net Extended Price">>

LEAD_TIME == <<"L", "E", "A", "D", " ", "T", "I", "M", "E">>

\* the prefix test without upper()
IsLeadTimeCaseSensitive(ln) == startswith(ln, LEAD_TIME)

\* ln.upper().startswith("LEAD TIME")
IsLeadTime(ln) == startswith(upper(ln), LEAD_TIME)

\* the dict built from a match
ItemRecord(m) ==
    ("Line #" :> int(m.line_no))
      @@ ("Quantity Ordered" :> float(replaceComma(m.qty)))
      @@ ("Part ID" :> m.part_id)
      @@ ("Description" :> <<>>)
      @@ ("Net Unit Price" :> float(replaceComma(m.unit_price)))
      @@ ("Net Extended Price" :> float(replaceComma(m.ext_price)))

\* the append that always puts the separator first
AppendDescriptionAlwaysSpace(desc, ln) == desc \o (<<" ">> \o ln)

\* current["Description"] += (" " + ln) if current["Description"] else ln
AppendDescription(desc, ln) ==
    IF desc # <<>> THEN desc \o (<<" ">> \o ln) ELSE desc \o ln

\* the loop body that appends a continuation line to the first record
LoopBodyAttachFirst(st, ln) ==
    LET m == ITEM_LINE_RE(ln)
    IN IF m.matched
       THEN [records |-> Append(st.records, ItemRecord(m)),
             current |-> Len(st.records) + 1]
       ELSE IF st.current # None /\ ~startswith(upper(ln), LEAD_TIME)
            THEN [st EXCEPT !.records[1]["Description"] =
                                IF @ # <<>> THEN @ \o (<<" ">> \o ln) ELSE ln]
            ELSE st

\* the loop body that skips an item row repeating the current line number
LoopBodySkipRepeat(st, ln) ==
    LET m == ITEM_LINE_RE(ln)
    IN IF m.matched
       THEN IF /\ st.current # None
               /\ st.records[st.current]["Line #"] = DigitsValue(m.line_no)
            THEN st
            ELSE [records |-> Append(st.records, ItemRecord(m)),
                  current |-> Len(st.records) + 1]
       ELSE IF st.current # None /\ ~startswith(upper(ln), LEAD_TIME)
            THEN [st EXCEPT !.records[st.current]["Description"] =
                                IF @ # <<>> THEN @ \o (<<" ">> \o ln) ELSE ln]
            ELSE st

\* the loop body whose records share one description
LoopBodySharedDescription(st, ln) ==
    LET m == ITEM_LINE_RE(ln)
    IN IF m.matched
       THEN [records |-> Append(st.records, ItemRecord(m)),
             current |-> Len(st.records) + 1]
       ELSE IF st.current # None /\ ~startswith(upper(ln), LEAD_TIME)
            THEN [st EXCEPT !.records =
                    [k \in 1..Len(st.records) |->
                        [st.records[k] EXCEPT !["Description"] =
                            IF @ # <<>> THEN @ \o (<<" ">> \o ln) ELSE ln]]]
            ELSE st

\* the loop body in which a lead-time line ends the current record
LoopBodyLeadTimeResets(st, ln) ==
    LET m == ITEM_LINE_RE(ln)
    IN IF m.matched
       THEN [records |-> Append(st.records, ItemRecord(m)),
             current |-> Len(st.records) + 1]
       ELSE IF st.current # None /\ ~startswith(upper(ln), LEAD_TIME)
            THEN [st EXCEPT !.records[st.current]["Description"] =
                                IF @ # <<>> THEN @ \o (<<" ">> \o ln) ELSE ln]
            ELSE [st EXCEPT !.current = None]

\* One iteration of `for ln in lines`, on st = [records, current].
LoopBody(st, ln) ==
    LET m == ITEM_LINE_RE(ln)
    IN IF m.matched
       THEN [records |-> Append(st.records, ItemRecord(m)),
             current |-> Len(st.records) + 1]
       ELSE IF st.current # None /\ ~IsLeadTime(ln)
            THEN [st EXCEPT !.records[st.current]["Description"] =
                                AppendDescription(@, ln)]
            ELSE st

RECURSIVE RunPass(_, _)
\* the whole loop `for ln in lines` from state st
RunPass(st, lns) ==
    IF lns = <<>> THEN st
    ELSE RunPass(LoopBody(st, Head(lns)), Tail(lns))

\* `(page.extract_text() or "")`
TextOf(page) == IF page.none THEN <<>> ELSE page.text

RECURSIVE PageLines(_)
\* the inner loop over one page's split text: strip, keep the non-blank
PageLines(raw) ==
    IF raw = <<>> THEN <<>>
    ELSE LET ln == strip(Head(raw))
         IN (IF ln # <<>> THEN <<ln>> ELSE <<>>) \o PageLines(Tail(raw))

RECURSIVE CollectLines(_)
\* "collect all non-blank lines", over the pages in order
CollectLines(pgs) ==
    IF pgs = <<>> THEN <<>>
    ELSE PageLines(split(TextOf(Head(pgs)), "\n")) \o CollectLines(Tail(pgs))

\* pd.DataFrame(records): the columns are the keys of the dicts, so a frame
\* built from no dict has no column
DataFrame(recs) ==
    [columns |-> IF recs = <<>> THEN <<>> ELSE Columns, rows |-> recs]

\* df.empty
empty(df) == Len(df.columns) = 0 \/ Len(df.rows) = 0

\* the frame with the parsed extended prices left in place
RecomputeSkipped(df) == df

\* df["Net Extended Price"] = (df["Quantity Ordered"] * df["Net Unit Price"]).round(2)
Recompute(df) ==
    [df EXCEPT !.rows =
        [k \in 1..Len(df.rows) |->
            [df.rows[k] EXCEPT !["Net Extended Price"] =
                round(Mul(df.rows[k]["Quantity Ordered"],
                          df.rows[k]["Net Unit Price"]), 2)]]]

\* df[[...]] raises KeyError when a requested column is missing
HasColumns(df, cols) ==
    \A c \in 1..Len(cols) : \E d \in 1..Len(df.columns) : df.columns[d] = cols[c]

\* df[[...]] when every column is there
SelectColumns(df, cols) ==
    [columns |-> cols,
     rows    |-> [k \in 1..Len(df.rows) |->
                    [c \in {cols[j] : j \in 1..Len(cols)} |-> df.rows[k][c]]]]

----------------------------------------------------------------------------
(* Input documents                                                         *)

\* an item row whose printed extended price is not qty * unit price
RowA ==
    <<"1", " ", "2", " ", "P", " ", "$", "2", ".", "5", "0", " ", "$", "9", ".", "9", "9">>

\* an item row numbered 0, fields separated by runs of blanks and a tab; 0.5 * 0.25 is a tie at the third decimal
RowZero ==
    <<"0", " ", " ", "0", ".", "5", "\t", "Q", " ", "$", "0", ".", "2", "5", " ", "$", "0", ".", "1", "3">>

\* an item row with a leading zero, a part id starting with '$' and a thousands separator
RowComma ==
    <<"0", "7", " ", "1", " ", "$", "R", " ", "$", "1", ",", "0", "0", "0", ".", "0", "0", " ", "$", "1", ".", "0", "0">>

\* no item row: one fraction digit in the unit price
NearOneDecimal ==
    <<"1", " ", "2", " ", "P", " ", "$", "2", ".", "5", " ", "$", "5", ".", "0", "0">>

\* no item row: text after the extended price
NearTrailing ==
    <<"1", " ", "2", " ", "P", " ", "$", "2", ".", "5", "0", " ", "$", "5", ".", "0", "0", " ", "x">>

\* free text
TextWb ==
    <<"W", "b">>

\* free text with inner and outer blanks
TextPadded ==
    <<" ", "a", " ", "b", " ">>

\* lead-time noise in mixed case, the prefix running into a word
LeadMixed ==
    <<"L", "e", "a", "d", " ", "t", "i", "m", "e", "x">>

\* not a LEAD TIME prefix
LeadNoBlank ==
    <<"L", "E", "A", "D", "T", "I", "M", "E">>

\* a blank line
Blank ==
    <<" ", " ">>

RawPool ==
    {RowA, RowZero, RowComma, NearOneDecimal, NearTrailing,
     TextWb, TextPadded, LeadMixed, LeadNoBlank,
     Blank}

\* the raw text lines of a document, at most MaxLines of them
RawDocs == UNION {[1..n -> RawPool] : n \in 0..MaxLines}

RECURSIVE JoinLines(_)
\* the text of a page showing the given lines
JoinLines(raw) ==
    IF raw = <<>> THEN <<>>
    ELSE IF Len(raw) = 1 THEN raw[1]
    ELSE raw[1] \o <<"\n">> \o JoinLines(Tail(raw))

Page(raw) == [none |-> FALSE, text |-> JoinLines(raw)]

\* a page pdfplumber finds no text on
NoTextPage == [none |-> TRUE, text |-> <<>>]

\* the document as pages: on one page, or broken after its first line (a
\* document without lines is then one page without text)
PagesOf(raw, brk) ==
    IF ~brk THEN <<Page(raw)>>
    ELSE IF raw = <<>> THEN <<NoTextPage>>
    ELSE <<Page(<<raw[1]>>), Page(Tail(raw))>>

----------------------------------------------------------------------------
(* State                                                                   *)

VARIABLES
    pc,        \* where main is: "idle", "open", "scan", "returned", "raised", "done"
    pages,     \* the open document: the text of each page
    readable,  \* whether pdfplumber can open the document
    lines,     \* extract_pdf_invoice: lines
    pos,       \* how many of lines the for loop has processed
    records,   \* extract_pdf_invoice: records
    current,   \* extract_pdf_invoice: current
    df,        \* the frame extract_pdf_invoice returns
    exc,       \* the exception raised, "" if none
    ui         \* what main shows: "", "warning", "success", "error"

vars == <<pc, pages, readable, lines, pos, records, current, df, exc, ui>>

Init ==
    /\ pc = "idle"
    /\ pages = <<>>
    /\ readable = TRUE
    /\ lines = <<>>
    /\ pos = 0
    /\ records = <<>>
    /\ current = None
    /\ df = DataFrame(<<>>)
    /\ exc = ""
    /\ ui = ""

\* main: a file is uploaded and staged in a temporary file
Upload ==
    /\ pc = "idle"
    /\ \E raw \in RawDocs, brk \in BOOLEAN, ok \in BOOLEAN :
          /\ ok \/ (raw = <<>> /\ ~brk)
          /\ pages' = PagesOf(raw, brk)
          /\ readable' = ok
    /\ pc' = "open"
    /\ UNCHANGED <<lines, pos, records, current, df, exc, ui>>

\* extract_pdf_invoice: open the document and collect its non-blank lines;
\* pdfplumber raises on a document it cannot read.  The `with` block closes
\* the document on either way out.
Collect ==
    /\ pc = "open"
    /\ IF readable
       THEN /\ lines' = CollectLines(pages)
            /\ pc' = "scan"
            /\ exc' = exc
       ELSE /\ lines' = lines
            /\ pc' = "raised"
            /\ exc' = "PDFSyntaxError"
    /\ pages' = <<>>
    /\ UNCHANGED <<readable, pos, records, current, df, ui>>

\* extract_pdf_invoice: one iteration of the loop over lines
Scan ==
    /\ pc = "scan"
    /\ pos < Len(lines)
    /\ LET st == LoopBody([records |-> records, current |-> current],
                          lines[pos + 1])
       IN /\ records' = st.records
          /\ current' = st.current
    /\ pos' = pos + 1
    /\ UNCHANGED <<pc, pages, readable, lines, df, exc, ui>>

\* extract_pdf_invoice after the loop: build the frame, recompute the
\* extended price unless the frame is empty, select the six columns
Frame(recs) ==
    LET d0 == DataFrame(recs)
        d1 == IF ~empty(d0) THEN Recompute(d0) ELSE d0
    IN IF HasColumns(d1, Columns)
       THEN [raised |-> FALSE, df |-> SelectColumns(d1, Columns)]
       ELSE [raised |-> TRUE, df |-> d1]

Finish ==
    /\ pc = "scan"
    /\ pos = Len(lines)
    /\ LET r == Frame(records)
       IN IF r.raised
          THEN /\ pc' = "raised"
               /\ exc' = "KeyError"
               /\ df' = df
          ELSE /\ pc' = "returned"
               /\ exc' = exc
               /\ df' = r.df
    /\ UNCHANGED <<pages, readable, lines, pos, records, current, ui>>

\* main: the warning for an empty frame, the success message and preview for
\* a non-empty one, st.error for any exception
Present ==
    /\ pc \in {"returned", "raised"}
    /\ ui' = IF pc = "raised" THEN "error"
             ELSE IF empty(df) THEN "warning"
             ELSE "success"
    /\ pc' = "done"
    /\ UNCHANGED <<pages, readable, lines, pos, records, current, df, exc>>

Next == Upload \/ Collect \/ Scan \/ Finish \/ Present

Spec == Init /\ [][Next]_vars

----------------------------------------------------------------------------
(* Vocabulary of the properties, defined on the input lines                *)

\* the lines a document of the pool can hold
LinePool == {strip(r) : r \in RawPool}

\* the match of each of them
MatchOf == [ln \in LinePool |-> ITEM_LINE_RE(ln)]

\* the line matches the item-row pattern
IsItemRow(ln) == MatchOf[ln].matched

\* the record its fields parse to
ParsedOf == [ln \in {l \in LinePool : IsItemRow(l)} |-> ItemRecord(MatchOf[ln])]

\* the text begins with "LEAD TIME" in any letter case
BeginsLeadTime(ln) ==
    /\ Len(ln) >= 9
    /\ ln[1] \in {"L", "l"} /\ ln[2] \in {"E", "e"} /\ ln[3] \in {"A", "a"}
    /\ ln[4] \in {"D", "d"} /\ ln[5] = " "
    /\ ln[6] \in {"T", "t"} /\ ln[7] \in {"I", "i"} /\ ln[8] \in {"M", "m"}
    /\ ln[9] \in {"E", "e"}

\* a continuation line that is kept
IsKept(ln) == ~IsItemRow(ln) /\ ~BeginsLeadTime(ln)

\* the positions of the item rows among the first n lines
RowsUpTo(n) == {p \in 1..n : IsItemRow(lines[p])}

\* the positions of the item rows, in input order
RowSeq == SelectSeq([p \in 1..Len(lines) |-> p], LAMBDA p : IsItemRow(lines[p]))

\* the i-th item row
Row(i) == lines[RowSeq[i]]

\* the position of the last item row among the first n lines (n has one)
LastRow(n) == CHOOSE p \in RowsUpTo(n) : \A q \in RowsUpTo(n) : q <= p

\* the kept continuation lines that follow the item row at position p, up
\* to the next item row or the n-th line, in input order
Segment(p, n) ==
    LET after == {q \in RowsUpTo(n) : q > p}
        stop  == IF after = {} THEN n + 1
                 ELSE CHOOSE q \in after : \A r \in after : q <= r
    IN SelectSeq(Slice(lines, p + 1, stop - 1), IsKept)

RECURSIVE JoinSpace(_)
\* c1, a single space, c2, ... ck
JoinSpace(cs) ==
    IF cs = <<>> THEN <<>>
    ELSE IF Len(cs) = 1 THEN cs[1]
    ELSE cs[1] \o <<" ">> \o JoinSpace(Tail(cs))

\* the numeric value of a string of digits, most significant first
NumericValue(ds) ==
    LET RECURSIVE sum(_)
        sum(k) == IF k > Len(ds) THEN 0
                  ELSE DigitVal(ds[k]) * Pow10(Len(ds) - k) + sum(k + 1)
    IN sum(1)

ParsedColumns == {"Line #", "Quantity Ordered", "Part ID", "Net Unit Price"}

FixedColumns == ParsedColumns \cup {"Net Extended Price"}

Descriptions(recs) == [k \in 1..Len(recs) |-> recs[k]["Description"]]

\* extract_pdf_invoice has returned (main may have presented the frame since)
Returned == pc = "returned" \/ (pc = "done" /\ exc = "")

\* extract_pdf_invoice has run to its end on a document it could read
Ended == pc \in {"returned", "raised", "done"} /\ readable

\* the loop is about to process a line
AtLine == pc = "scan" /\ pos < Len(lines)

----------------------------------------------------------------------------
(* Properties                                                              *)

\* C1: when no line matches the item-row pattern (the empty sequence
\* included), extract_pdf_invoice returns an empty result and raises nothing.
C1_NoRowsEmptyResult ==
    (Ended /\ RowsUpTo(Len(lines)) = {}) => (exc = "" /\ df.rows = <<>>)

\* C2: in every returned record, Net Extended Price is Quantity Ordered
\* times Net Unit Price rounded to 2 decimals, whatever was printed after the
\* second '$' of its line.
C2_ExtendedPriceRecomputed ==
    Returned =>
        \A k \in 1..Len(df.rows) :
            LET m == MatchOf[Row(k)]
            IN df.rows[k]["Net Extended Price"] =
                   round(Mul(float(replaceComma(m.qty)),
                             float(replaceComma(m.unit_price))), 2)

\* a returned record whose line printed another extended price
C2_Witness ==
    /\ Returned
    /\ \E k \in 1..Len(df.rows) :
          /\ ParsedOf[Row(k)]["Net Extended Price"]
                # df.rows[k]["Net Extended Price"]
          /\ df.rows[k]["Quantity Ordered"].exp > 0

\* C3: a kept continuation line is appended to the description of the most
\* recent item row before it and changes no other record; a line before the
\* first item row reaches no record; a record starts with an empty
\* description, so nothing before its row is in it.
C3_ContinuationAttachesToEarlierRow ==
    [][AtLine =>
        LET ln == lines[pos + 1]
            n  == Cardinality(RowsUpTo(pos))
        IN IF IsItemRow(ln)
           THEN /\ Len(records') = Len(records) + 1
                /\ records'[Len(records')]["Description"] = <<>>
                /\ Descriptions(SubSeq(records', 1, Len(records)))
                      = Descriptions(records)
           ELSE /\ Len(records') = Len(records)
                /\ n = 0 => records' = <<>>
                /\ \A k \in 1..Len(records) :
                      k # n => records'[k]["Description"]
                                  = records[k]["Description"]
                /\ n > 0 =>
                      /\ records'[n]["Description"] =
                            IF IsKept(ln)
                            THEN AppendDescription(records[n]["Description"], ln)
                            ELSE records[n]["Description"]
                      /\ \A c \in ParsedColumns :
                            records'[n][c] = ParsedOf[lines[LastRow(pos)]][c]
    ]_vars

\* a text line before the first row, and a text line between two rows that
\* the earlier row holds and the later one does not
C3_Witness ==
    /\ pos = 4
    /\ IsKept(lines[1]) /\ IsItemRow(lines[2])
    /\ IsKept(lines[3]) /\ IsItemRow(lines[4])
    /\ records[1]["Description"] = lines[3]
    /\ records[2]["Description"] = <<>>

\* C4: a non-matching line beginning with "LEAD TIME" in any letter case is
\* dropped: the descriptions are those of the input without such lines.
C4_LeadTimeDropped ==
    pc = "scan" =>
        Descriptions(records) =
            Descriptions(
                RunPass([records |-> <<>>, current |-> None],
                        SelectSeq(SubSeq(lines, 1, pos),
                                  LAMBDA ln : ~BeginsLeadTime(ln))).records)

\* a lead-time line in mixed case between a described row and the next row
C4_Witness ==
    /\ pc = "scan" /\ pos = 4
    /\ IsItemRow(lines[1]) /\ IsKept(lines[2])
    /\ BeginsLeadTime(lines[3]) /\ lines[3][2] = "e"
    /\ IsItemRow(lines[4])
    /\ records[1]["Description"] = lines[2]
    /\ records[2]["Description"] = <<>>

\* C5: one record per matching line, the i-th record built from the i-th
\* matching line, during the pass and in the returned frame.
C5_OneRecordPerRowInOrder ==
    /\ Len(records) = Cardinality(RowsUpTo(pos))
    /\ \A i \in 1..Len(records) : \A c \in ParsedColumns :
          records[i][c] = ParsedOf[Row(i)][c]
    /\ Returned =>
          /\ Len(df.rows) = Cardinality(RowsUpTo(Len(lines)))
          /\ \A i \in 1..Len(df.rows) : \A c \in ParsedColumns :
                df.rows[i][c] = ParsedOf[Row(i)][c]

\* a returned frame with a repeated line number and a decreasing one
C5_Witness ==
    /\ Returned
    /\ Len(df.rows) = 3
    /\ df.rows[1]["Line #"] = df.rows[2]["Line #"]
    /\ df.rows[3]["Line #"] < df.rows[2]["Line #"]

\* C6: a document without item rows makes main show the warning, not the
\* failure message.
C6_NoRowsShowWarning ==
    (pc = "done" /\ readable /\ RowsUpTo(Len(lines)) = {}) => ui = "warning"

\* C7: a record's description is its kept continuation lines in arrival
\* order, joined by single spaces, empty when there is none.
C7_DescriptionIsJoin ==
    /\ \A i \in 1..Len(records) :
          records[i]["Description"] = JoinSpace(Segment(RowSeq[i], pos))
    /\ Returned =>
          \A i \in 1..Len(df.rows) :
              df.rows[i]["Description"]
                 = JoinSpace(Segment(RowSeq[i], Len(lines)))

\* a returned record with two continuation lines, and one with none
C7_Witness ==
    /\ Returned
    /\ \E i \in 1..Len(df.rows) :
          /\ Len(Segment(RowSeq[i], Len(lines))) = 2
          /\ df.rows[i]["Description"] = lines[RowSeq[i] + 1] \o <<" ">>
                                            \o lines[RowSeq[i] + 2]
    /\ \E i \in 1..Len(df.rows) : df.rows[i]["Description"] = <<>>

\* C8 as stated: every returned lineNumber is at least 1 and is the numeric
\* value of the leading digit field of its line.
C8_LineNumberPositive ==
    Returned =>
        \A i \in 1..Len(df.rows) :
            /\ df.rows[i]["Line #"] >= 1
            /\ df.rows[i]["Line #"] = NumericValue(MatchOf[Row(i)].line_no)

\* C8 amended: every lineNumber, in records and in the returned frame, is a
\* natural number (0 included) and is the numeric value of the leading digit
\* field of its line.
C8_LineNumberVerbatim ==
    /\ \A i \in 1..Len(records) :
          /\ records[i]["Line #"] \in Nat
          /\ records[i]["Line #"] = NumericValue(MatchOf[Row(i)].line_no)
    /\ Returned =>
          \A i \in 1..Len(df.rows) :
              /\ df.rows[i]["Line #"] \in Nat
              /\ df.rows[i]["Line #"]
                    = NumericValue(MatchOf[Row(i)].line_no)

\* a returned frame with line number 0 and with a field written 07
C8_Witness ==
    /\ Returned
    /\ \E i \in 1..Len(df.rows) : df.rows[i]["Line #"] = 0
    /\ \E i \in 1..Len(df.rows) :
          /\ df.rows[i]["Line #"] = 7
          /\ Len(MatchOf[Row(i)].line_no) = 2

\* C9: a step changes at most the description of the last record: its other
\* fields stay, every earlier record stays, and a new row leaves the record
\* it supersedes as it was.
C9_OnlyCurrentDescriptionChanges ==
    [][/\ Len(records') \in {Len(records), Len(records) + 1}
       /\ \A k \in 1..Len(records) :
             /\ \A c \in FixedColumns : records'[k][c] = records[k][c]
             /\ (k < Len(records) \/ Len(records') > Len(records))
                   => records'[k] = records[k]
    ]_vars

\* a superseded record with a description, its successor with one too
C9_Witness ==
    /\ pc = "scan" /\ pos = 4
    /\ Len(records) = 2
    /\ records[1]["Description"] # <<>>
    /\ records[2]["Description"] # <<>>

\* C10: current is absent exactly while no processed line has matched (the
\* records are then empty); when present it is the last record; once present
\* it stays present.
C10_CurrentPresence ==
    /\ [](/\ current = None <=> RowsUpTo(pos) = {}
          /\ current = None => records = <<>>
          /\ current # None => current = Len(records))
    /\ [][current # None => current' # None]_vars

\* current is the second record, after lines that did not match
C10_Witness ==
    /\ pc = "scan" /\ pos = 4
    /\ current = 2
    /\ ~IsItemRow(lines[1]) /\ ~IsItemRow(lines[4])

====
